---- MODULE Spec2Model ----
(***************************************************************************)
(* Model of the RML mapping interpreter of rdf-processor.js: doMapping,    *)
(* parseRMLRules, extractLogicalSources, parseCSV and processCSVWithRML.   *)
(*                                                                         *)
(* A JavaScript string is a sequence of symbols.  A symbol is a character, *)
(* or a run of characters that no scan of the program looks inside: it     *)
(* holds none of "." "{" "}" where the string is a field name, a reference *)
(* or a field value, and only URI-unreserved characters where the string   *)
(* is a field value.  Vocabulary IRIs, node names and source keys are only *)
(* compared as wholes.                                                     *)
(*                                                                         *)
(* A JavaScript object is modelled by its own properties and by the        *)
(* properties the program adds to Object.prototype.  The field names,      *)
(* references and source keys considered are not names of the built-in     *)
(* members of Object.prototype, except "__proto__" as the first segment of *)
(* a dotted column name.  An invocation is followed until it settles or    *)
(* until parseCSV returns with Object.prototype modified: the behaviour of *)
(* N3 in such a process is not modelled.                                   *)
(***************************************************************************)
EXTENDS Integers, Sequences, FiniteSets, TLC

(***************************************************************************)
(* Strings                                                                 *)
(***************************************************************************)
Min(a, b) == IF a < b THEN a ELSE b

\* String.prototype.includes('.')
IncludesDot(s) == \E i \in 1..Len(s) : s[i] = "."

\* String.prototype.split('.')
RECURSIVE SplitFrom(_, _, _)
SplitFrom(s, i, cur) ==
  IF i > Len(s) THEN <<cur>>
  ELSE IF s[i] = "." THEN <<cur>> \o SplitFrom(s, i + 1, <<>>)
  ELSE SplitFrom(s, i + 1, Append(cur, s[i]))

Split(s) == SplitFrom(s, 1, <<>>)

\* does pat occur in s at position i
OccursAt(s, pat, i) ==
  /\ i + Len(pat) - 1 <= Len(s)
  /\ \A j \in 1..Len(pat) : s[i + j - 1] = pat[j]

\* String.prototype.indexOf, 1-based; 0 when pat does not occur
IndexOf(s, pat) ==
  IF \E i \in 1..Len(s) : OccursAt(s, pat, i)
  THEN CHOOSE i \in 1..Len(s) :
         /\ OccursAt(s, pat, i)
         /\ \A j \in 1..(i - 1) : ~OccursAt(s, pat, j)
  ELSE 0

\* String.prototype.replace(pat, rep) with a string pattern: the first
\* occurrence only (rep never holds "$": encodeURIComponent escapes it)
Replace(s, pat, rep) ==
  LET i == IndexOf(s, pat)
  IN  IF i = 0 THEN s
      ELSE SubSeq(s, 1, i - 1) \o rep \o SubSeq(s, i + Len(pat), Len(s))

\* the escape of one symbol by encodeURIComponent
EncodeSymbol(c) ==
  CASE c = " " -> <<"%", "2", "0">>
    [] c = "{" -> <<"%", "7", "B">>
    [] c = "}" -> <<"%", "7", "D">>
    [] c = "[" -> <<"%", "5", "B">>
    [] c = "]" -> <<"%", "5", "D">>
    [] c = "/" -> <<"%", "2", "F">>
    [] c = "%" -> <<"%", "2", "5">>
    [] OTHER   -> <<c>>

RECURSIVE encodeURIComponent(_)
encodeURIComponent(s) ==
  IF s = <<>> THEN <<>>
  ELSE EncodeSymbol(Head(s)) \o encodeURIComponent(Tail(s))

\* csv-parse option trim: true
RECURSIVE TrimLeft(_)
TrimLeft(s) == IF s # <<>> /\ Head(s) = " " THEN TrimLeft(Tail(s)) ELSE s

RECURSIVE TrimRight(_)
TrimRight(s) ==
  IF s # <<>> /\ s[Len(s)] = " " THEN TrimRight(SubSeq(s, 1, Len(s) - 1)) ELSE s

Trim(s) == TrimRight(TrimLeft(s))

(***************************************************************************)
(* JavaScript values held by a row                                         *)
(***************************************************************************)
Undefined == [t |-> "undefined"]
StrV(s)   == [t |-> "string", v |-> s]
NumV(n)   == [t |-> "number", v |-> n]
ObjV(f)   == [t |-> "object", v |-> f]
EmptyObject == ObjV([k \in {} |-> Undefined])
Thrown    == [t |-> "thrown"]

DigitOf(c) ==
  CASE c = "0" -> 0 [] c = "1" -> 1 [] c = "2" -> 2 [] c = "3" -> 3
    [] OTHER -> -1

\* property read value[key]; own properties of objects, and the length and
\* index properties of a string
Get(val, key) ==
  CASE val.t = "object" ->
         IF key \in DOMAIN val.v THEN val.v[key] ELSE Undefined
    [] val.t = "string" ->
         IF key = <<"length">> THEN NumV(Len(val.v))
         ELSE IF Len(key) = 1 /\ DigitOf(key[1]) >= 0
                 /\ DigitOf(key[1]) < Len(val.v)
              THEN StrV(<<val.v[DigitOf(key[1]) + 1]>>)
              ELSE Undefined
    [] OTHER -> Undefined

\* ToBoolean
Truthy(val) ==
  CASE val.t \in {"object", "prototype"} -> TRUE
    [] val.t = "string" -> val.v # <<>>
    [] val.t = "number" -> val.v # 0
    [] OTHER -> FALSE

\* value || ''
OrEmpty(val) == IF Truthy(val) THEN val ELSE StrV(<<>>)

\* the decimal digits of a number: a run of unreserved characters
NumSymbols(n) == <<ToString(n)>>

\* ToString, as applied by encodeURIComponent and by template literals
ToStr(val) ==
  CASE val.t = "string" -> val.v
    [] val.t = "number" -> NumSymbols(val.v)
    [] val.t = "object" -> <<"[", "object", " ", "Object", "]">>
    [] OTHER -> <<"undefined">>

(***************************************************************************)
(* Tabular sources.  The content of a source is its text, read as lines of *)
(* delimited fields; quoteOpen marks a text that ends inside a quoted      *)
(* field.  The empty string is the text with no line at all.               *)
(***************************************************************************)
EmptyContent == [lines |-> <<>>, quoteOpen |-> FALSE]

\* a line without characters: one empty field
IsEmptyLine(line) == Len(line) = 1 /\ line[1] = <<>>

TrimFields(line) == [i \in 1..Len(line) |-> Trim(line[i])]

\* the record csv-parse builds for a data line under columns: true and
\* relax_column_count: true; missing trailing fields leave their column
\* unset, fields beyond the last column are ignored
Record(columns, line) ==
  LET n == Min(Len(columns), Len(line))
  IN  [keys |-> SubSeq(columns, 1, n),
       vals |-> [k \in {columns[i] : i \in 1..n} |->
                   line[CHOOSE i \in 1..n :
                          /\ columns[i] = k
                          /\ \A j \in (i + 1)..n : columns[j] # k]]]

\* the lines csv-parse keeps under skip_empty_lines: true
KeptLines(csvContent) == SelectSeq(csvContent.lines, LAMBDA l : ~IsEmptyLine(l))

\* the column names: the fields of the first kept line
Columns(csvContent) ==
  IF KeptLines(csvContent) = <<>> THEN <<>>
  ELSE TrimFields(KeptLines(csvContent)[1])

\* csv-parse/sync parse(csvContent, {columns: true, skip_empty_lines: true,
\* trim: true, relax_column_count: true, relax_quotes: true}): the records,
\* or the error it throws on a quoted field that is never closed
parse(csvContent) ==
  IF csvContent.quoteOpen THEN [thrown |-> TRUE, records |-> <<>>]
  ELSE LET kept == KeptLines(csvContent)
       IN  [thrown  |-> FALSE,
            records |-> [i \in 1..(Len(kept) - 1) |->
                           Record(Columns(csvContent), TrimFields(kept[i + 1]))]]

\* Object.prototype, the object every plain object inherits from, as the
\* value that current holds after current = current["__proto__"]
PrototypeObject == [t |-> "prototype"]

\* the properties a program has added to Object.prototype: none at start
NoProperties == [k \in {} |-> Undefined]

\* the own properties of an object, where those of Object.prototype are the
\* added ones
Own(proto, val) == IF val.t = "prototype" THEN proto ELSE val.v

\* property read value[key] when Object.prototype holds the properties
\* proto: an own property, else the prototype itself under "__proto__",
\* else an inherited property
GetIn(proto, val, key) ==
  CASE val.t = "prototype" ->
         IF key \in DOMAIN proto THEN proto[key] ELSE Undefined
    [] val.t = "object" ->
         IF key \in DOMAIN val.v THEN val.v[key]
         ELSE IF key = <<"__proto__">> THEN PrototypeObject
         ELSE IF key \in DOMAIN proto THEN proto[key]
         ELSE Undefined
    [] OTHER ->
         IF Get(val, key) # Undefined THEN Get(val, key)
         ELSE IF key \in DOMAIN proto THEN proto[key]
         ELSE Undefined

\* the object cur, or Object.prototype, with own property key set to val
SetOwn(proto, cur, key, val) ==
  IF cur.t = "prototype"
  THEN [thrown |-> FALSE, cur |-> cur, proto |-> (key :> val) @@ proto]
  ELSE [thrown |-> FALSE, cur |-> ObjV((key :> val) @@ cur.v), proto |-> proto]

\* lines 110-122: the assignment of val under the dotted path parts of the
\* object cur, with the properties of Object.prototype before and after.
\* The walk follows current[parts[i]] where it is truthy, own or inherited,
\* and creates an own {} where it is not; "__proto__" leads to
\* Object.prototype itself, so that the assignment at the end of the path
\* adds a property to it.  The module is an ES module, hence strict:
\* creating a property on a primitive (a string met on the path) throws a
\* TypeError.
RECURSIVE AssignPath(_, _, _, _)
AssignPath(proto, cur, parts, val) ==
  IF cur.t \notin {"object", "prototype"}
  THEN [thrown |-> TRUE, cur |-> cur, proto |-> proto]
  ELSE IF Len(parts) = 1 THEN SetOwn(proto, cur, parts[1], val)
  ELSE LET key   == parts[1]
           found == GetIn(proto, cur, key)
           where == IF ~Truthy(found) \/ key \in DOMAIN Own(proto, cur)
                    THEN "own"
                    ELSE IF found = PrototypeObject THEN "prototype"
                    ELSE "inherited"
           child == IF Truthy(found) THEN found ELSE EmptyObject
           sub   == AssignPath(proto, child, Tail(parts), val)
       IN  IF sub.thrown
           THEN [thrown |-> TRUE, cur |-> cur,
                 proto  |-> IF Truthy(found) THEN sub.proto
                            ELSE SetOwn(sub.proto, cur, key, EmptyObject).proto]
           ELSE IF where = "own" THEN SetOwn(sub.proto, cur, key, sub.cur)
           ELSE IF where = "prototype"
           THEN [thrown |-> FALSE, cur |-> cur, proto |-> sub.proto]
           ELSE [thrown |-> FALSE, cur |-> cur,
                 proto  |-> (key :> sub.cur) @@ sub.proto]

\* lines 108-126: the first pass over Object.keys(record), from key i on;
\* done holds the processed record so far and the properties of
\* Object.prototype
RECURSIVE NestKeys(_, _, _)
NestKeys(record, i, done) ==
  IF i > Len(record.keys) \/ done.thrown THEN done
  ELSE LET key == record.keys[i]
           val == StrV(record.vals[key])
       IN  NestKeys(record, i + 1,
                    IF IncludesDot(key)
                    THEN AssignPath(done.proto, done.cur, Split(key), val)
                    ELSE SetOwn(done.proto, done.cur, key, val))

\* lines 129-131: the second pass keeps every flat key
FlatKeys(record, done) ==
  IF done.thrown THEN done
  ELSE [done EXCEPT !.cur =
          ObjV([k \in DOMAIN record.vals |-> StrV(record.vals[k])] @@ done.cur.v)]

\* lines 105-134: the callback of records.map
ProcessRecord(proto, record) ==
  FlatKeys(record,
           NestKeys(record, 1,
                    [thrown |-> FALSE, cur |-> EmptyObject, proto |-> proto]))

\* line 105: records.map from record i on; an exception ends it
RECURSIVE ProcessRecords(_, _, _)
ProcessRecords(records, i, done) ==
  IF i > Len(records) \/ done.thrown THEN done
  ELSE LET one == ProcessRecord(done.proto, records[i])
       IN  ProcessRecords(records, i + 1,
                          [thrown |-> one.thrown,
                           rows   |-> Append(done.rows, one.cur),
                           proto  |-> one.proto])

\* lines 93-144 in a process whose Object.prototype holds the properties
\* proto: the headers and rows, or the error rethrown at line 142, and the
\* properties of Object.prototype afterwards
parseCSVIn(proto, csvContent) ==
  LET parsed  == parse(csvContent)
      records == parsed.records
      done    == ProcessRecords(records, 1,
                                [thrown |-> FALSE, rows |-> <<>>, proto |-> proto])
  IN  IF parsed.thrown
      THEN [thrown |-> TRUE, headers |-> <<>>, rows |-> <<>>, proto |-> proto]
      ELSE IF done.thrown
      THEN [thrown |-> TRUE, headers |-> <<>>, rows |-> <<>>, proto |-> done.proto]
      ELSE [thrown  |-> FALSE,
            headers |-> IF records = <<>> THEN <<>> ELSE records[1].keys,
            rows    |-> done.rows,
            proto   |-> done.proto]

\* lines 93-144 in a process with Object.prototype as it is at start
parseCSV(csvContent) ==
  LET result == parseCSVIn(NoProperties, csvContent)
  IN  [thrown |-> result.thrown, headers |-> result.headers, rows |-> result.rows]

(***************************************************************************)
(* The mapping descriptor: RDF terms, quads, and the N3 store              *)
(***************************************************************************)
XSD_string  == <<"http://www.w3.org/2001/XMLSchema#string">>
XSD_integer == <<"http://www.w3.org/2001/XMLSchema#integer">>

NamedNode(v) == [termType |-> "NamedNode", value |-> v]
Literal(v)   == [termType |-> "Literal", value |-> v, language |-> <<>>,
                 datatype |-> XSD_string]
Quad(s, p, o) == [subject |-> s, predicate |-> p, object |-> o]

\* the vocabulary IRIs the program compares against (never scanned)
RDF_type              == <<"http://www.w3.org/1999/02/22-rdf-syntax-ns#type">>
RR_TriplesMap         == <<"http://www.w3.org/ns/r2rml#TriplesMap">>
RML_logicalSource     == <<"http://semweb.mmlab.be/ns/rml#logicalSource">>
RML_source            == <<"http://semweb.mmlab.be/ns/rml#source">>
RR_subjectMap         == <<"http://www.w3.org/ns/r2rml#subjectMap">>
RR_template           == <<"http://www.w3.org/ns/r2rml#template">>
RR_predicateObjectMap == <<"http://www.w3.org/ns/r2rml#predicateObjectMap">>
RR_predicateMap       == <<"http://www.w3.org/ns/r2rml#predicateMap">>
RR_constant           == <<"http://www.w3.org/ns/r2rml#constant">>
RR_objectMap          == <<"http://www.w3.org/ns/r2rml#objectMap">>
RML_reference         == <<"http://semweb.mmlab.be/ns/rml#reference">>

\* lines 48-51: N3.Parser.parse returns the statements of the text in
\* document order, or throws on a text that is not valid RDF
parseRMLRules(rmlString) ==
  IF rmlString.valid THEN [thrown |-> FALSE, quads |-> rmlString.quads]
  ELSE [thrown |-> TRUE, quads |-> <<>>]

\* the members of a set of indices, in increasing order
Ascending(S) ==
  [k \in 1..Cardinality(S) |->
     CHOOSE i \in S : Cardinality({j \in S : j < i}) = k - 1]

\* the indices of seq whose element satisfies Test, in increasing order
Where(seq, Test(_)) == Ascending({i \in 1..Len(seq) : Test(seq[i])})

\* lines 61-67: one entry per rdf:type rr:TriplesMap statement, in order
FindTriplesMaps(quads) ==
  LET isMap(q) == /\ q.predicate.value = RDF_type
                  /\ q.object.value = RR_TriplesMap
      at == Where(quads, isMap)
  IN  [k \in 1..Len(at) |-> quads[at[k]].subject.value]

\* lines 71-84: the (logicalSource statement, source statement) pairs that
\* assign logicalSources[triplesMap], as index pairs into quads
SourceAssignments(quads, triplesMap) ==
  LET outer == {i \in 1..Len(quads) :
                  /\ quads[i].subject.value = triplesMap
                  /\ quads[i].predicate.value = RML_logicalSource}
      inner(i) == {j \in 1..Len(quads) :
                     /\ quads[j].subject.value = quads[i].object.value
                     /\ quads[j].predicate.value = RML_source}
  IN  UNION {{<<i, j>> : j \in inner(i)} : i \in outer}

Before(a, b) == a[1] < b[1] \/ (a[1] = b[1] /\ a[2] < b[2])

\* lines 56-88: logicalSources keeps, for each triples-map, the value of the
\* assignment executed last; a triples-map without assignment has no entry
extractLogicalSources(quads) ==
  LET triplesMaps == FindTriplesMaps(quads)
      names == {triplesMaps[k] : k \in 1..Len(triplesMaps)}
      bound == {m \in names : SourceAssignments(quads, m) # {}}
      last(m) == CHOOSE a \in SourceAssignments(quads, m) :
                   \A b \in SourceAssignments(quads, m) : a = b \/ Before(b, a)
  IN  [logicalSources |-> [m \in bound |-> quads[last(m)[2]].object.value],
       triplesMaps    |-> triplesMaps]

\* N3.Store.getQuads(subject, predicate, null): the statements of the store
\* with that subject IRI and predicate IRI, each once, in store order
getQuads(store, subject, predicate) ==
  LET hit(q) == /\ q.subject = NamedNode(subject)
                /\ q.predicate = NamedNode(predicate)
      keep == Ascending({i \in 1..Len(store) :
                           /\ hit(store[i])
                           /\ \A l \in 1..(i - 1) : store[l] # store[i]})
  IN  [k \in 1..Len(keep) |-> store[keep[k]]]

(***************************************************************************)
(* processCSVWithRML: the steps of the loop body                           *)
(***************************************************************************)
\* line 157: !sourceFile || !inputFiles[sourceFile]; an absent entry reads
\* as undefined, and the empty string is falsy like undefined
SourceNotFound(sources, map, files) ==
  IF map \notin DOMAIN sources THEN TRUE
  ELSE IF sources[map] = <<>> THEN TRUE
  ELSE IF sources[map] \notin DOMAIN files THEN TRUE
  ELSE files[sources[map]] = EmptyContent

\* a mutated lookup that reads the subject template of the first
\* triples-map of the descriptor, whatever the triples-map under the loop
SubjectTemplateOfFirstMap(store, triplesMap) ==
  LET first == FindTriplesMaps(store)[1]
      subjectMapQuads == getQuads(store, first, RR_subjectMap)
      templateQuads   ==
        getQuads(store, subjectMapQuads[1].object.value, RR_template)
  IN  IF subjectMapQuads = <<>> THEN [found |-> FALSE, value |-> <<>>]
      ELSE IF templateQuads = <<>> THEN [found |-> FALSE, value |-> <<>>]
      ELSE [found |-> TRUE, value |-> templateQuads[1].object.value]

\* lines 165-172: the subject template of the triples-map, when it has a
\* subject map with a template
SubjectTemplate(store, triplesMap) ==
  LET subjectMapQuads == getQuads(store, triplesMap, RR_subjectMap)
      templateQuads   ==
        getQuads(store, subjectMapQuads[1].object.value, RR_template)
  IN  IF subjectMapQuads = <<>> THEN [found |-> FALSE, value |-> <<>>]
      ELSE IF templateQuads = <<>> THEN [found |-> FALSE, value |-> <<>>]
      ELSE [found |-> TRUE, value |-> templateQuads[1].object.value]

\* lines 184-187: the replacements for the headers from position i on
RECURSIVE ExpandFrom(_, _, _, _)
ExpandFrom(subjectURI, headers, i, row) ==
  IF i > Len(headers) THEN subjectURI
  ELSE LET key   == headers[i]
           value == OrEmpty(Get(row, key))
       IN  ExpandFrom(Replace(subjectURI, <<"{">> \o key \o <<"}">>,
                              encodeURIComponent(ToStr(value))),
                      headers, i + 1, row)

\* lines 180-187
ExpandSubject(subjectTemplate, headers, row) ==
  ExpandFrom(subjectTemplate, headers, 1, row)

\* lines 194-211: the predicate and the reference of a predicate-object
\* map, or skip when one of the four lookups finds nothing
TermMaps(store, poMap) ==
  LET skip == [skip |-> TRUE, predicate |-> <<>>, reference |-> <<>>]
      predicateMapQuads == getQuads(store, poMap, RR_predicateMap)
      predicateConstantQuads ==
        getQuads(store, predicateMapQuads[1].object.value, RR_constant)
      objectMapQuads == getQuads(store, poMap, RR_objectMap)
      referenceQuads ==
        getQuads(store, objectMapQuads[1].object.value, RML_reference)
  IN  IF predicateMapQuads = <<>> THEN skip
      ELSE IF predicateConstantQuads = <<>> THEN skip
      ELSE IF objectMapQuads = <<>> THEN skip
      ELSE IF referenceQuads = <<>> THEN skip
      ELSE [skip      |-> FALSE,
            predicate |-> predicateConstantQuads[1].object.value,
            reference |-> referenceQuads[1].object.value]

\* a mutated walk that gives up with the empty string, without the flat
\* lookup of the whole reference
RECURSIVE NavigateNoFallback(_, _, _, _, _)
NavigateNoFallback(current, parts, i, row, reference) ==
  IF i > Len(parts) THEN current
  ELSE IF Truthy(current) /\ Truthy(Get(current, parts[i]))
       THEN NavigateNoFallback(Get(current, parts[i]), parts, i + 1, row, reference)
       ELSE StrV(<<>>)

\* a mutated walk that stops at a falsy step and keeps the value reached
RECURSIVE NavigateKeepCurrent(_, _, _, _, _)
NavigateKeepCurrent(current, parts, i, row, reference) ==
  IF i > Len(parts) THEN current
  ELSE IF Truthy(current) /\ Truthy(Get(current, parts[i]))
       THEN NavigateKeepCurrent(Get(current, parts[i]), parts, i + 1, row, reference)
       ELSE current

\* lines 221-229: the walk from segment i on; a falsy step abandons the walk
\* for the flat lookup of the whole reference
RECURSIVE Navigate(_, _, _, _, _)
Navigate(current, parts, i, row, reference) ==
  IF i > Len(parts) THEN current
  ELSE IF Truthy(current) /\ Truthy(Get(current, parts[i]))
       THEN Navigate(Get(current, parts[i]), parts, i + 1, row, reference)
       ELSE OrEmpty(Get(row, reference))

\* lines 214-235: the value of a reference in a row
ResolveReference(row, reference) ==
  IF IncludesDot(reference)
  THEN Navigate(row, Split(reference), 1, row, reference)
  ELSE OrEmpty(Get(row, reference))

\* N3.DataFactory.literal(value): a number becomes an xsd:integer literal,
\* anything else a plain literal whose lexical form is String(value)
literal(value) ==
  [termType |-> "Literal", value |-> ToStr(value), language |-> <<>>,
   datatype |-> IF value.t = "number" THEN XSD_integer ELSE XSD_string]

\* lines 238-242
NewQuad(subjectURI, predicate, value) ==
  Quad(NamedNode(subjectURI), NamedNode(predicate), literal(value))

\* a mutated initialisation that keeps the quads of the previous invocation
KeepResultQuads(previous) == previous

\* line 152: const resultQuads = []
NewResultQuads(previous) == <<>>

\* a mutated push that adds at the front
PushFront(quads, quad) == <<quad>> \o quads

\* line 238: resultQuads.push(quad)
Push(quads, quad) == Append(quads, quad)

\* N3.Writer, format N-Triples: the text of one statement
NTriplesLine(quad) ==
  <<"<">> \o quad.subject.value \o <<">", " ", "<">> \o quad.predicate.value
    \o <<">", " ", "\"">> \o quad.object.value \o <<"\"">>
    \o (IF quad.object.datatype = XSD_string THEN <<>>
        ELSE <<"^^", "<">> \o quad.object.datatype \o <<">">>)
    \o <<" ", ".">>

\* lines 248-259: one line per result quad, in the order of resultQuads
WriteNTriples(quads) == [k \in 1..Len(quads) |-> NTriplesLine(quads[k])]

(***************************************************************************)
(* Inputs: mapping descriptors and source tables                           *)
(***************************************************************************)
MaxTriplesMaps == 2   \* triples-maps per descriptor
MaxPOMaps      == 2   \* predicate-object maps per triples-map
MaxRows        == 2   \* data lines per source
MaxCalls       == 2   \* invocations of doMapping per behaviour

\* field names
F_id              == <<"id">>
F_room            == <<"room">>
F_room_name       == <<"room", ".", "name">>
F_room_name_first == <<"room", ".", "name", ".", "first">>
F_room_length     == <<"room", ".", "length">>
F_zip             == <<"zip">>
F_zip_code        == <<"zip", ".", "code">>
F_proto_zip       == <<"__proto__", ".", "zip">>

\* field values
V_empty  == <<>>
V_101    == <<"1", "0", "1">>
V_ATC001 == <<"ATC001">>
V_A_1    == <<"A", " ", "1">>
V_braces == <<"{", "room", "}">>

\* source keys; no source table holds SRC_C
SRC_A == <<"a.csv">>
SRC_B == <<"b.csv">>
SRC_C == <<"c.csv">>

EX == <<"http://example.com/medication/">>
Placeholder(f) == <<"{">> \o f \o <<"}">>
T_id   == EX \o Placeholder(F_id)
T_many == EX \o Placeholder(F_id) \o <<"/">> \o Placeholder(F_room)
             \o <<"/">> \o Placeholder(F_room_name) \o <<"/">>
             \o Placeholder(F_zip)
T_pair  == EX \o Placeholder(F_id) \o <<"/">> \o Placeholder(F_room)
T_twice == EX \o Placeholder(F_id) \o <<"/">> \o Placeholder(F_id)

P_identifier == <<"http://schema.org/identifier">>
P_room       == <<"http://example.com/room">>
C_Medication == <<"Medication">>

\* the shapes of a predicate-object map
RefPO(predicate, reference) ==
  [kind |-> "reference", predicate |-> predicate, term |-> reference]
ConstPO      == [kind |-> "constant", predicate |-> P_room, term |-> C_Medication]
NoPredMapPO  == [kind |-> "noPredicateMap", predicate |-> P_room, term |-> F_id]
NoPredConPO  == [kind |-> "noPredicateConstant", predicate |-> P_room, term |-> F_id]
NoObjMapPO   == [kind |-> "noObjectMap", predicate |-> P_room, term |-> F_id]

Node(kind, i)     == <<kind, ToString(i)>>
Node2(kind, i, j) == <<kind, ToString(i), "_", ToString(j)>>

\* the statements of predicate-object map j of triples-map i
POMapQuads(i, j, po) ==
  LET pom == NamedNode(Node2("pom", i, j))
      pm  == NamedNode(Node2("pm", i, j))
      om  == NamedNode(Node2("om", i, j))
  IN  <<Quad(NamedNode(Node("map", i)), NamedNode(RR_predicateObjectMap), pom)>>
      \o (IF po.kind = "noPredicateMap" THEN <<>>
          ELSE <<Quad(pom, NamedNode(RR_predicateMap), pm)>>)
      \o (IF po.kind \in {"noPredicateMap", "noPredicateConstant"} THEN <<>>
          ELSE <<Quad(pm, NamedNode(RR_constant), NamedNode(po.predicate))>>)
      \o (IF po.kind = "noObjectMap" THEN <<>>
          ELSE <<Quad(pom, NamedNode(RR_objectMap), om)>>)
      \o (IF po.kind = "noObjectMap" THEN <<>>
          ELSE IF po.kind = "constant"
          THEN <<Quad(om, NamedNode(RR_constant), Literal(po.term))>>
          ELSE <<Quad(om, NamedNode(RML_reference), Literal(po.term))>>)

RECURSIVE POMapsQuads(_, _, _)
POMapsQuads(i, j, pos) ==
  IF j > Len(pos) THEN <<>>
  ELSE POMapQuads(i, j, pos[j]) \o POMapsQuads(i, j + 1, pos)

\* the statements of triples-map i
TriplesMapQuads(i, shape) ==
  LET map == NamedNode(Node("map", i))
      ls  == NamedNode(Node("source", i))
      sm  == NamedNode(Node("s", i))
  IN  <<Quad(map, NamedNode(RDF_type), NamedNode(RR_TriplesMap))>>
      \o (IF shape.hasSource
          THEN <<Quad(map, NamedNode(RML_logicalSource), ls),
                 Quad(ls, NamedNode(RML_source), Literal(shape.source))>>
          ELSE <<>>)
      \o (IF shape.subject = "noSubjectMap" THEN <<>>
          ELSE <<Quad(map, NamedNode(RR_subjectMap), sm)>>)
      \o (IF shape.subject = "template"
          THEN <<Quad(sm, NamedNode(RR_template), Literal(shape.template))>>
          ELSE <<>>)
      \o POMapsQuads(i, 1, shape.pos)

RECURSIVE DescriptorQuads(_, _)
DescriptorQuads(i, shapes) ==
  IF i > Len(shapes) THEN <<>>
  ELSE TriplesMapQuads(i, shapes[i]) \o DescriptorQuads(i + 1, shapes)

Mapping(shapes) == [valid |-> TRUE, quads |-> DescriptorQuads(1, shapes)]
InvalidMapping  == [valid |-> FALSE, quads |-> <<>>]

Shape(source, subject, template, pos) ==
  [hasSource |-> TRUE, source |-> source, subject |-> subject,
   template |-> template, pos |-> pos]

SeqsUpTo(S, n) == UNION {[1..k -> S] : k \in 0..n}

Table(headers, rows) == [lines |-> <<headers>> \o rows, quoteOpen |-> FALSE]
UnclosedQuote == [lines |-> <<<<F_id>>>>, quoteOpen |-> TRUE]
BlankLines    == [lines |-> <<<<V_empty>>>>, quoteOpen |-> FALSE]

\* (1) one triples-map that reads every reference, over many tables
HeaderLists ==
  {<<F_id, F_room>>, <<F_id, F_room_name>>, <<F_room_name, F_room>>,
   <<F_room, F_room_name>>, <<F_room_name_first, F_room_name>>,
   <<F_room_name, F_room_name_first>>}

\* full lines, with an empty first or second field, and a line that lacks
\* its last field
DataLines ==
  {<<V_101, V_101>>, <<V_empty, V_101>>, <<V_101, V_empty>>, <<V_101>>}

Tables == {Table(h, rows) : h \in HeaderLists, rows \in SeqsUpTo(DataLines, MaxRows)}

EveryReference ==
  <<RefPO(P_identifier, F_id), RefPO(P_room, F_room),
    RefPO(P_room, F_room_name), RefPO(P_room, F_room_name_first),
    RefPO(P_room, F_room_length), RefPO(P_room, F_zip)>>

TableInputs ==
  {[rmlString  |-> Mapping(<<Shape(SRC_A, "template", T_many, EveryReference)>>),
    inputFiles |-> (SRC_A :> t)] : t \in Tables}

\* (2) several triples-maps, bound and unbound, complete and incomplete
TableA == Table(<<F_id, F_room_name>>, <<<<V_ATC001, V_101>>, <<V_A_1, V_empty>>>>)
\* the line of TableB has one field more than there are columns
TableB == Table(<<F_id, F_room>>, <<<<V_101, V_101, V_101>>>>)

FileTables ==
  {(SRC_A :> TableA) @@ (SRC_B :> b) :
     b \in {TableB, EmptyContent, UnclosedQuote, BlankLines,
            Table(<<F_id, F_room>>, <<>>)}}

TwoRefs == <<RefPO(P_identifier, F_id), RefPO(P_room, F_room_name)>>

BasicShapes ==
  {Shape(SRC_A, "template", T_id, TwoRefs),
   Shape(SRC_B, "template", T_id, TwoRefs),
   Shape(SRC_C, "template", T_id, TwoRefs),
   [Shape(SRC_A, "template", T_id, TwoRefs) EXCEPT !.hasSource = FALSE],
   Shape(SRC_A, "noSubjectMap", T_id, TwoRefs),
   Shape(SRC_A, "noTemplate", T_id, TwoRefs)}

StructureInputs ==
  {[rmlString |-> Mapping(shapes), inputFiles |-> files] :
     shapes \in SeqsUpTo(BasicShapes, MaxTriplesMaps) \ {<<>>},
     files \in FileTables}
  \cup {[rmlString |-> InvalidMapping, inputFiles |-> (SRC_A :> TableA)],
        [rmlString |-> Mapping(<<>>), inputFiles |-> (SRC_A :> TableA)]}

\* (3) one triples-map with every combination of predicate-object maps
POShapes ==
  {RefPO(P_identifier, F_id), RefPO(P_room, F_room_name),
   RefPO(P_room, F_room), RefPO(P_room, F_zip), ConstPO, NoPredMapPO,
   NoPredConPO, NoObjMapPO}

POInputs ==
  {[rmlString  |-> Mapping(<<Shape(SRC_A, "template", T_id, pos)>>),
    inputFiles |-> (SRC_A :> TableA)] : pos \in SeqsUpTo(POShapes, MaxPOMaps)}

\* (4) templates with two placeholders, of two fields or twice the same,
\* over lines whose first value reads as a placeholder, and short lines
TemplateLines == {<<V_ATC001, V_101>>, <<V_braces, V_101>>, <<V_ATC001>>}

TemplateInputs ==
  {[rmlString  |->
      Mapping(<<Shape(SRC_A, "template", t, <<RefPO(P_identifier, F_id)>>)>>),
    inputFiles |-> (SRC_A :> Table(<<F_id, F_room>>, rows))] :
     t \in {T_pair, T_twice}, rows \in SeqsUpTo(TemplateLines, MaxRows)}

\* (5) one triples-map with further statements after those of its shape:
\* a second source literal, a second logical source, a second subject map,
\* template, predicate constant and reference, or a second type statement
OneMap == DescriptorQuads(1, <<Shape(SRC_A, "template", T_id, TwoRefs)>>)

SecondSourceLiteral ==
  <<Quad(NamedNode(Node("source", 1)), NamedNode(RML_source), Literal(SRC_B))>>

SecondLogicalSource ==
  <<Quad(NamedNode(Node("map", 1)), NamedNode(RML_logicalSource),
         NamedNode(Node("source", 2))),
    Quad(NamedNode(Node("source", 2)), NamedNode(RML_source), Literal(SRC_B))>>

SecondTerms ==
  <<Quad(NamedNode(Node("map", 1)), NamedNode(RR_subjectMap),
         NamedNode(Node("s", 2))),
    Quad(NamedNode(Node("s", 2)), NamedNode(RR_template), Literal(T_twice)),
    Quad(NamedNode(Node("s", 1)), NamedNode(RR_template), Literal(T_pair)),
    Quad(NamedNode(Node2("pm", 1, 1)), NamedNode(RR_constant),
         NamedNode(P_room)),
    Quad(NamedNode(Node2("om", 1, 1)), NamedNode(RML_reference),
         Literal(F_room_name))>>

\* the rdf:type statement of the triples-map, once more
RepeatedType ==
  <<Quad(NamedNode(Node("map", 1)), NamedNode(RDF_type),
         NamedNode(RR_TriplesMap))>>

MultiValuedInputs ==
  {[rmlString  |-> [valid |-> TRUE, quads |-> OneMap \o more],
    inputFiles |-> (SRC_A :> TableA) @@ (SRC_B :> TableB)] :
     more \in {SecondSourceLiteral, SecondLogicalSource, SecondTerms,
               RepeatedType}}

\* (6) a column whose dotted name starts with "__proto__"
PrototypeHeaders == {<<F_id, F_proto_zip>>, <<F_proto_zip, F_zip_code>>}

PrototypeLines == {<<V_101, V_101>>, <<V_empty, V_101>>}

PrototypeInputs ==
  {[rmlString  |->
      Mapping(<<Shape(SRC_A, "template", T_id,
                      <<RefPO(P_identifier, F_id), RefPO(P_room, F_zip)>>)>>),
    inputFiles |-> (SRC_A :> Table(h, rows))] :
     h \in PrototypeHeaders, rows \in SeqsUpTo(PrototypeLines, MaxRows)}

Inputs ==
  TableInputs \cup StructureInputs \cup POInputs \cup TemplateInputs
  \cup MultiValuedInputs \cup PrototypeInputs

(***************************************************************************)
(* State: the arguments of the current invocation of doMapping, its        *)
(* position and locals, and the outcomes of the invocations made so far.   *)
(***************************************************************************)
VARIABLES
  rmlString,        \* argument: the mapping text
  inputFiles,       \* argument: source key -> content
  pc,               \* position of the invocation
  store,            \* rmlQuads / new N3.Store(rmlQuads)
  logicalSources,   \* line 150
  triplesMaps,      \* line 150
  tmIdx,            \* position of the loop of line 155
  csvData,          \* line 162
  subjectTemplate,  \* line 172
  poMapQuads,       \* line 175
  rowIdx,           \* position of the loop of line 178
  subjectURI,       \* line 180
  poIdx,            \* position of the loop of line 190
  resultQuads,      \* line 152
  origin,           \* for each result quad, the (tmIdx, rowIdx, poIdx) that pushed it
  outcome,          \* how the invocation settled, with the value it returned
  history,          \* the arguments and outcomes of the earlier invocations
  console,          \* the diagnostics written so far (lines 141, 158, 273, 276)
  objectPrototype   \* the properties added to Object.prototype (line 121)

args   == <<rmlString, inputFiles>>
mapVars == <<store, logicalSources, triplesMaps>>
tmVars == <<csvData, subjectTemplate, poMapQuads>>
vars == <<rmlString, inputFiles, pc, store, logicalSources, triplesMaps, tmIdx,
          csvData, subjectTemplate, poMapQuads, rowIdx, subjectURI, poIdx,
          resultQuads, origin, outcome, history, console, objectPrototype>>

NoFunction == [k \in {} |-> <<>>]
NoCsvData  == [thrown |-> FALSE, headers |-> <<>>, rows |-> <<>>]
Pending    == [status |-> "pending", result |-> <<>>]

\* the locals of an invocation that has not started or has returned
NoLocals ==
  /\ store = <<>> /\ logicalSources = NoFunction /\ triplesMaps = <<>>
  /\ tmIdx = 0 /\ csvData = NoCsvData /\ subjectTemplate = <<>>
  /\ poMapQuads = <<>> /\ rowIdx = 0 /\ subjectURI = <<>> /\ poIdx = 0
  /\ resultQuads = <<>> /\ origin = <<>>

Init ==
  /\ \E input \in Inputs :
       /\ rmlString = input.rmlString
       /\ inputFiles = input.inputFiles
  /\ pc = "call"
  /\ NoLocals
  /\ outcome = Pending
  /\ history = <<>>
  /\ console = <<>>
  /\ objectPrototype = NoProperties

\* an entry of the diagnostic log: console.log, console.warn, console.error
Diagnostic(level, text) == [level |-> level, text |-> text]

\* line 158: the warning names the source key, or undefined without one
SourceWarning(sources, map) ==
  Diagnostic("warn",
             <<"Source file ">>
             \o (IF map \in DOMAIN sources THEN sources[map]
                 ELSE <<"undefined">>)
             \o <<" not found in input files">>)

CsvError     == Diagnostic("error", <<"Error parsing CSV:">>)
MappingError == Diagnostic("error", <<"Mapping error:">>)
Generated    == Diagnostic("log", <<"Generated RDF triples:">>)

\* the triples-map under the loop of line 155
triplesMap == triplesMaps[tmIdx]
sourceFile == logicalSources[triplesMap]
row        == csvData.rows[rowIdx]

\* line 162: parseCSV(inputFiles[sourceFile]) in the process as it is
csvResult == parseCSVIn(objectPrototype, inputFiles[sourceFile])

\* lines 266-268, 275-277: the mapping text does not parse; doMapping logs
\* the error and rejects
MappingParseError ==
  /\ pc = "call"
  /\ parseRMLRules(rmlString).thrown
  /\ pc' = "rejected"
  /\ outcome' = [status |-> "rejected", result |-> <<>>]
  /\ console' = Append(console, MappingError)
  /\ UNCHANGED <<args, mapVars, tmIdx, tmVars, rowIdx, subjectURI, poIdx,
                 resultQuads, origin, history, objectPrototype>>

\* lines 268-271, 150-152: the mapping parses; processCSVWithRML starts
StartProcessing ==
  /\ pc = "call"
  /\ ~parseRMLRules(rmlString).thrown
  /\ LET rmlQuads == parseRMLRules(rmlString).quads
         found    == extractLogicalSources(rmlQuads)
     IN  /\ store' = rmlQuads
         /\ logicalSources' = found.logicalSources
         /\ triplesMaps' = found.triplesMaps
  /\ resultQuads' = NewResultQuads(resultQuads)
  /\ origin' = <<>>
  /\ tmIdx' = 1
  /\ pc' = "triplesMaps"
  /\ UNCHANGED <<args, tmVars, rowIdx, subjectURI, poIdx, outcome, history,
                 console, objectPrototype>>

\* a mutated handling of a missing source that fails the invocation
AbortOnMissingSource ==
  /\ pc = "triplesMaps"
  /\ tmIdx <= Len(triplesMaps)
  /\ SourceNotFound(logicalSources, triplesMap, inputFiles)
  /\ pc' = "rejected"
  /\ outcome' = [status |-> "rejected", result |-> <<>>]
  /\ UNCHANGED <<args, mapVars, tmIdx, tmVars, rowIdx, subjectURI, poIdx,
                 resultQuads, origin, history, console, objectPrototype>>

\* lines 156-160: no source for the triples-map; warn and continue
SkipMissingSource ==
  /\ pc = "triplesMaps"
  /\ tmIdx <= Len(triplesMaps)
  /\ SourceNotFound(logicalSources, triplesMap, inputFiles)
  /\ console' = Append(console, SourceWarning(logicalSources, triplesMap))
  /\ tmIdx' = tmIdx + 1
  /\ UNCHANGED <<args, pc, mapVars, tmVars, rowIdx, subjectURI, poIdx,
                 resultQuads, origin, outcome, history, objectPrototype>>

\* lines 162, 140-143, 275-277: parseCSV throws and logs the error; doMapping
\* logs it again and rejects
SourceParseError ==
  /\ pc = "triplesMaps"
  /\ tmIdx <= Len(triplesMaps)
  /\ ~SourceNotFound(logicalSources, triplesMap, inputFiles)
  /\ csvResult.thrown
  /\ objectPrototype' = csvResult.proto
  /\ pc' = "rejected"
  /\ outcome' = [status |-> "rejected", result |-> <<>>]
  /\ console' = console \o <<CsvError, MappingError>>
  /\ UNCHANGED <<args, mapVars, tmIdx, tmVars, rowIdx, subjectURI, poIdx,
                 resultQuads, origin, history>>

\* lines 162, 121: parseCSV returns after adding to Object.prototype.  What
\* N3 does in a process whose Object.prototype is modified is outside the
\* model: the invocation is not followed further
ModifyPrototype ==
  /\ pc = "triplesMaps"
  /\ tmIdx <= Len(triplesMaps)
  /\ ~SourceNotFound(logicalSources, triplesMap, inputFiles)
  /\ ~csvResult.thrown
  /\ csvResult.proto # objectPrototype
  /\ objectPrototype' = csvResult.proto
  /\ pc' = "modified"
  /\ UNCHANGED <<args, mapVars, tmIdx, tmVars, rowIdx, subjectURI, poIdx,
                 resultQuads, origin, outcome, history, console>>

\* lines 162-170: the source parses, but the triples-map has no subject map
\* or the subject map no template; continue
SkipNoSubject ==
  /\ pc = "triplesMaps"
  /\ tmIdx <= Len(triplesMaps)
  /\ ~SourceNotFound(logicalSources, triplesMap, inputFiles)
  /\ ~csvResult.thrown
  /\ csvResult.proto = objectPrototype
  /\ ~SubjectTemplate(store, triplesMap).found
  /\ tmIdx' = tmIdx + 1
  /\ UNCHANGED <<args, pc, mapVars, tmVars, rowIdx, subjectURI, poIdx,
                 resultQuads, origin, outcome, history, console,
                 objectPrototype>>

\* lines 162-178: the triples-map is bound and has a template; the loop
\* over its rows starts
EnterTriplesMap ==
  /\ pc = "triplesMaps"
  /\ tmIdx <= Len(triplesMaps)
  /\ ~SourceNotFound(logicalSources, triplesMap, inputFiles)
  /\ ~csvResult.thrown
  /\ csvResult.proto = objectPrototype
  /\ SubjectTemplate(store, triplesMap).found
  /\ csvData' = [thrown  |-> FALSE, headers |-> csvResult.headers,
                 rows    |-> csvResult.rows]
  /\ subjectTemplate' = SubjectTemplate(store, triplesMap).value
  /\ poMapQuads' = getQuads(store, triplesMap, RR_predicateObjectMap)
  /\ rowIdx' = 1
  /\ pc' = "rows"
  /\ UNCHANGED <<args, mapVars, tmIdx, subjectURI, poIdx, resultQuads,
                 origin, outcome, history, console, objectPrototype>>

\* lines 178-190: the subject of the next row; the loop over the
\* predicate-object maps starts
ExpandRowSubject ==
  /\ pc = "rows"
  /\ rowIdx <= Len(csvData.rows)
  /\ subjectURI' = ExpandSubject(subjectTemplate, csvData.headers, row)
  /\ poIdx' = 1
  /\ pc' = "poMaps"
  /\ UNCHANGED <<args, mapVars, tmIdx, tmVars, rowIdx, resultQuads, origin,
                 outcome, history, console, objectPrototype>>

\* lines 190-209: a predicate-object map without predicate map, predicate
\* constant, object map or reference; continue
SkipPOMap ==
  /\ pc = "poMaps"
  /\ poIdx <= Len(poMapQuads)
  /\ TermMaps(store, poMapQuads[poIdx].object.value).skip
  /\ poIdx' = poIdx + 1
  /\ UNCHANGED <<args, pc, mapVars, tmIdx, tmVars, rowIdx, subjectURI,
                 resultQuads, origin, outcome, history, console,
                 objectPrototype>>

\* lines 190-243: the quad of a row and a predicate-object map
PushQuad ==
  /\ pc = "poMaps"
  /\ poIdx <= Len(poMapQuads)
  /\ LET terms == TermMaps(store, poMapQuads[poIdx].object.value)
     IN  /\ ~terms.skip
         /\ resultQuads' =
              Push(resultQuads,
                   NewQuad(subjectURI, terms.predicate,
                           ResolveReference(row, terms.reference)))
  /\ origin' = Push(origin, <<tmIdx, rowIdx, poIdx>>)
  /\ poIdx' = poIdx + 1
  /\ UNCHANGED <<args, pc, mapVars, tmIdx, tmVars, rowIdx, subjectURI,
                 outcome, history, console, objectPrototype>>

\* line 190: the predicate-object maps of the row are exhausted
NextRow ==
  /\ pc = "poMaps"
  /\ poIdx > Len(poMapQuads)
  /\ rowIdx' = rowIdx + 1
  /\ poIdx' = 0
  /\ subjectURI' = <<>>
  /\ pc' = "rows"
  /\ UNCHANGED <<args, mapVars, tmIdx, tmVars, resultQuads, origin, outcome,
                 history, console, objectPrototype>>

\* line 178: the rows of the triples-map are exhausted
NextTriplesMap ==
  /\ pc = "rows"
  /\ rowIdx > Len(csvData.rows)
  /\ tmIdx' = tmIdx + 1
  /\ rowIdx' = 0
  /\ csvData' = NoCsvData /\ subjectTemplate' = <<>> /\ poMapQuads' = <<>>
  /\ pc' = "triplesMaps"
  /\ UNCHANGED <<args, mapVars, subjectURI, poIdx, resultQuads, origin,
                 outcome, history, console, objectPrototype>>

\* lines 247-259, 271-274: the triples-maps are exhausted; the result quads
\* are written as N-Triples and doMapping logs and resolves with the text
Resolve ==
  /\ pc = "triplesMaps"
  /\ tmIdx > Len(triplesMaps)
  /\ outcome' = [status |-> "resolved", result |-> WriteNTriples(resultQuads)]
  /\ pc' = "resolved"
  /\ console' = Append(console, Generated)
  /\ UNCHANGED <<args, mapVars, tmIdx, tmVars, rowIdx, subjectURI, poIdx,
                 resultQuads, origin, history, objectPrototype>>

\* the triples-maps of a descriptor that name a source key absent from the
\* source table
UnboundMaps(quads, files) ==
  LET found == extractLogicalSources(quads)
  IN  {m \in DOMAIN found.logicalSources :
         found.logicalSources[m] \notin DOMAIN files}

\* the descriptor without the statements of triples-map m
WithoutMap(text, m) ==
  [text EXCEPT !.quads = SelectSeq(text.quads, LAMBDA q : q.subject.value # m)]

Settled == pc \in {"resolved", "rejected"}

\* the invocation has returned in a process whose Object.prototype is as at
\* start: its outcome is recorded, with the origins of its result quads, and
\* the position is a new call; the locals of the returned invocation stay visible until
\* the next one initialises its own (lines 150-152)
Return ==
  /\ objectPrototype = NoProperties
  /\ history' = Append(history, [rmlString |-> rmlString, outcome |-> outcome,
                                 origin |-> origin])
  /\ pc' = "call"
  /\ outcome' = Pending
  /\ UNCHANGED <<mapVars, tmIdx, tmVars, rowIdx, subjectURI, poIdx,
                 resultQuads, origin, console, objectPrototype>>

\* the caller invokes doMapping again with the same arguments
CallAgain ==
  /\ Settled
  /\ Len(history) + 1 < MaxCalls
  /\ Return
  /\ UNCHANGED args

\* the caller invokes doMapping again with the same source table and the
\* descriptor less one triples-map whose source key the table lacks
CallWithoutUnboundMap ==
  /\ Settled
  /\ Len(history) + 1 < MaxCalls
  /\ rmlString.valid
  /\ \E m \in UnboundMaps(rmlString.quads, inputFiles) :
       rmlString' = WithoutMap(rmlString, m)
  /\ Return
  /\ UNCHANGED inputFiles

\* the nodes of a descriptor that the statements of triples-map m lead to:
\* its logical sources, subject maps and predicate-object maps, and their
\* predicate maps and object maps
Owned(quads, m) ==
  LET step(nodes) ==
        nodes \cup {quads[i].object.value :
                      i \in {j \in 1..Len(quads) : quads[j].subject.value \in nodes}}
  IN  step(step(step({m})))

\* the descriptor with the statements of triples-map m alone
OnlyMap(text, m) ==
  LET owned == Owned(text.quads, m)
  IN  [text EXCEPT !.quads =
         SelectSeq(text.quads, LAMBDA q : q.subject.value \in owned)]

\* the caller invokes doMapping again with the same source table and one
\* triples-map alone of the descriptor of several that has just resolved
CallWithOnlyMap ==
  /\ pc = "resolved"
  /\ Len(history) + 1 < MaxCalls
  /\ Len(triplesMaps) > 1
  /\ \E k \in 1..Len(triplesMaps) :
       rmlString' = OnlyMap(rmlString, triplesMaps[k])
  /\ Return
  /\ UNCHANGED inputFiles

Next ==
  \/ MappingParseError
  \/ StartProcessing
  \/ SkipMissingSource
  \/ SourceParseError
  \/ ModifyPrototype
  \/ SkipNoSubject
  \/ EnterTriplesMap
  \/ ExpandRowSubject
  \/ SkipPOMap
  \/ PushQuad
  \/ NextRow
  \/ NextTriplesMap
  \/ Resolve
  \/ CallAgain
  \/ CallWithoutUnboundMap
  \/ CallWithOnlyMap

Spec == Init /\ [][Next]_vars

(***************************************************************************)
(* Properties                                                              *)
(***************************************************************************)
\* the last step pushed the quad of the current row and of the
\* predicate-object map before poIdx
Pushed ==
  /\ pc = "poMaps"
  /\ poIdx > 1
  /\ origin # <<>>
  /\ origin[Len(origin)] = <<tmIdx, rowIdx, poIdx - 1>>

lastQuad  == resultQuads[Len(resultQuads)]
lastTerms == TermMaps(store, poMapQuads[poIdx - 1].object.value)

\* the value at the end of the path parts in the nested view of val, with
\* no fallback: undefined as soon as a segment is missing
RECURSIVE NestedValue(_, _)
NestedValue(val, parts) ==
  IF parts = <<>> THEN val
  ELSE NestedValue(Get(val, Head(parts)), Tail(parts))

FieldNames ==
  {F_id, F_room, F_room_name, F_room_name_first, F_room_length, F_zip}

ContributionCount(k) == Cardinality({n \in 1..Len(origin) : origin[n][1] = k})

HasPredicateConstant(poMap) ==
  LET pm == getQuads(store, poMap, RR_predicateMap)
  IN  IF pm = <<>> THEN FALSE
      ELSE getQuads(store, pm[1].object.value, RR_constant) # <<>>

ObjectTerms(poMap, termPredicate) ==
  LET om == getQuads(store, poMap, RR_objectMap)
  IN  IF om = <<>> THEN <<>>
      ELSE getQuads(store, om[1].object.value, termPredicate)

\* a predicate-object map with a constant predicate map and an object map
\* that carries a reference or a constant
WellFormedPO(poMap) ==
  /\ HasPredicateConstant(poMap)
  /\ \/ ObjectTerms(poMap, RML_reference) # <<>>
     \/ ObjectTerms(poMap, RR_constant) # <<>>

\* the triples-map at position k has a source that parses and a template
Mapped(k) ==
  IF SourceNotFound(logicalSources, triplesMaps[k], inputFiles) THEN FALSE
  ELSE IF parseCSV(inputFiles[logicalSources[triplesMaps[k]]]).thrown THEN FALSE
  ELSE SubjectTemplate(store, triplesMaps[k]).found

RowsOf(k)   == parseCSV(inputFiles[logicalSources[triplesMaps[k]]]).rows
POMapsOf(k) == getQuads(store, triplesMaps[k], RR_predicateObjectMap)

\* C1: a triples-map with a bound source of R rows, a subject template and P
\* well-formed predicate-object maps contributes exactly R x P triples.
C1_RowCountTripleCount ==
  pc = "resolved" =>
    \A k \in 1..Len(triplesMaps) :
      (/\ Mapped(k)
       /\ \A p \in 1..Len(POMapsOf(k)) : WellFormedPO(POMapsOf(k)[p].object.value))
      => ContributionCount(k) = Len(RowsOf(k)) * Len(POMapsOf(k))

\* C1, for reference object maps only: when every predicate-object map has
\* a predicate constant and an object reference, the count is R x P.
C1_RowCountForReferences ==
  pc = "resolved" =>
    \A k \in 1..Len(triplesMaps) :
      (/\ Mapped(k)
       /\ \A p \in 1..Len(POMapsOf(k)) :
            /\ HasPredicateConstant(POMapsOf(k)[p].object.value)
            /\ ObjectTerms(POMapsOf(k)[p].object.value, RML_reference) # <<>>)
      => ContributionCount(k) = Len(RowsOf(k)) * Len(POMapsOf(k))

LexLess(a, b) ==
  \/ a[1] < b[1]
  \/ a[1] = b[1] /\ a[2] < b[2]
  \/ a[1] = b[1] /\ a[2] = b[2] /\ a[3] < b[3]

\* C2: the result is ordered by (position of the triples-map, position of
\* the row, position of the predicate-object map): of two emitted triples
\* the one with the smaller index triple comes first, in resultQuads and in
\* the text doMapping returns.
C2_EmissionOrder ==
  /\ Len(resultQuads) = Len(origin)
  /\ \A m, n \in 1..Len(origin) : m < n => LexLess(origin[m], origin[n])
  /\ pc = "resolved" =>
       outcome.result = [k \in 1..Len(resultQuads) |-> NTriplesLine(resultQuads[k])]

C2_Witness ==
  /\ pc = "resolved"
  /\ \E m, n \in 1..Len(origin) :
       /\ origin[m] = <<1, 2, 2>>
       /\ origin[n] = <<2, 1, 1>>
       /\ m < n

\* the earlier invocation whose descriptor is the current one plus one
\* triples-map that names a source key absent from the source table
WithUnboundMap(h) ==
  /\ h.rmlString.valid
  /\ \E m \in UnboundMaps(h.rmlString.quads, inputFiles) :
       rmlString = WithoutMap(h.rmlString, m)

\* C3: a triples-map whose source key is absent from the source table
\* contributes no triples and raises no exception, and the invocation
\* settles as it does on the descriptor without that triples-map: same
\* outcome, same triples.
C3_MissingSourceTolerance ==
  /\ \A n \in 1..Len(origin) :
       triplesMaps[origin[n][1]] \in DOMAIN logicalSources =>
         logicalSources[triplesMaps[origin[n][1]]] \in DOMAIN inputFiles
  /\ Settled =>
       \A i \in 1..Len(history) :
         WithUnboundMap(history[i]) => history[i].outcome = outcome

C3_Witness ==
  /\ pc = "resolved"
  /\ Len(outcome.result) > 0
  /\ \E i \in 1..Len(history) :
       /\ WithUnboundMap(history[i])
       /\ Len(FindTriplesMaps(history[i].rmlString.quads)) > 1
       /\ history[i].outcome.status = "resolved"

\* C4: for a reference that is no column name of the bound source, flat or
\* dotted, the emitted object is the empty-string literal.
C4_UnresolvedFieldPolicy ==
  (/\ Pushed
   /\ \A i \in 1..Len(Columns(inputFiles[sourceFile])) :
        Columns(inputFiles[sourceFile])[i] # lastTerms.reference)
  => lastQuad.object = Literal(<<>>)

\* C5: once the subject of a row is expanded, no placeholder of a field
\* that is absent from the row remains in it.
C5_TemplateTotality ==
  pc = "poMaps" =>
    \A f \in FieldNames :
      Get(row, f) = Undefined => IndexOf(subjectURI, Placeholder(f)) = 0

\* the walk of the nested view of r along parts stops at a missing or
\* falsy segment
WalkFails(r, parts) ==
  \E i \in 1..Len(parts) : ~Truthy(NestedValue(r, SubSeq(parts, 1, i)))

\* C6: for a row that holds the dotted reference as a flat key with value v
\* and whose first segment is no sub-object, so that the walk fails, the
\* emitted object is v.
C6_DottedReferenceFallback ==
  (/\ Pushed
   /\ IncludesDot(lastTerms.reference)
   /\ Get(row, lastTerms.reference).t = "string"
   /\ Get(row, Split(lastTerms.reference)[1]).t # "object"
   /\ WalkFails(row, Split(lastTerms.reference)))
  => lastQuad.object = Literal(Get(row, lastTerms.reference).v)

C6_Witness ==
  /\ Pushed
  /\ lastTerms.reference = F_room_name
  /\ Get(row, F_room_name) = StrV(V_101)
  /\ Get(row, F_room) = StrV(V_101)
  /\ lastQuad.object = Literal(V_101)

\* C7: in every row parseCSV returns, for every dotted column name h, the
\* walk of the nested view along the segments of h reaches the flat value
\* row[h], and the reference h resolves to that value.
C7_FlatNestedAgreement ==
  \A r \in 1..Len(csvData.rows) :
    \A h \in DOMAIN csvData.rows[r].v :
      IncludesDot(h) =>
        /\ NestedValue(csvData.rows[r], Split(h)) = Get(csvData.rows[r], h)
        /\ ResolveReference(csvData.rows[r], h) = OrEmpty(Get(csvData.rows[r], h))

ConstantObjectPO(poMap) ==
  /\ HasPredicateConstant(poMap)
  /\ ObjectTerms(poMap, RML_reference) = <<>>
  /\ ObjectTerms(poMap, RR_constant) # <<>>

\* C9: a predicate-object map whose object map carries a constant emits,
\* for the row, one triple whose object is that constant.
C9_ConstantObjectMap ==
  pc = "poMaps" =>
    \A p \in 1..(poIdx - 1) :
      ConstantObjectPO(poMapQuads[p].object.value) =>
        \E n \in 1..Len(origin) :
          /\ origin[n] = <<tmIdx, rowIdx, p>>
          /\ resultQuads[n].subject = NamedNode(subjectURI)
          /\ resultQuads[n].object.value =
               ObjectTerms(poMapQuads[p].object.value, RR_constant)[1].object.value

\* C10: when a triples-map names a source key that the source table holds
\* with an empty content, or with a content that does not parse, the
\* invocation does not resolve.
C10_EmptySourceFatal ==
  pc = "resolved" =>
    \A k \in 1..Len(triplesMaps) :
      (/\ triplesMaps[k] \in DOMAIN logicalSources
       /\ logicalSources[triplesMaps[k]] \in DOMAIN inputFiles)
      => /\ inputFiles[logicalSources[triplesMaps[k]]] # EmptyContent
         /\ ~parseCSV(inputFiles[logicalSources[triplesMaps[k]]]).thrown

\* C11: every step that skips a triples-map (no source, no subject map, no
\* template) or a predicate-object map (no predicate map or constant, no
\* object map or reference) writes a warning to the diagnostic log.
C11_SkipWarnings ==
  [][(SkipMissingSource \/ SkipNoSubject \/ SkipPOMap)
       => /\ Len(console') = Len(console) + 1
          /\ console'[Len(console')].level = "warn"]_vars

\* a predicate-object map that lacks a predicate map, a predicate constant
\* or an object map
Incomplete(poMap) ==
  \/ ~HasPredicateConstant(poMap)
  \/ getQuads(store, poMap, RR_objectMap) = <<>>

\* the result quads of row r and predicate-object map p of triples-map k
Emitted(k, r, p) == {n \in 1..Len(origin) : origin[n] = <<k, r, p>>}

\* the triples-map at position k has a source that parses, and no subject
\* map or no template
WithoutSubject(k) ==
  IF SourceNotFound(logicalSources, triplesMaps[k], inputFiles) THEN FALSE
  ELSE IF parseCSV(inputFiles[logicalSources[triplesMaps[k]]]).thrown THEN FALSE
  ELSE ~SubjectTemplate(store, triplesMaps[k]).found

\* C12: in a resolved invocation, an incomplete predicate-object map emits
\* nothing and every other predicate-object map of the triples-map emits
\* one triple per row; a triples-map without subject map or template
\* contributes nothing, and the triples-maps after it are processed.
C12_FinestGrainSkip ==
  pc = "resolved" =>
    \A k \in 1..Len(triplesMaps) :
      /\ WithoutSubject(k) => ContributionCount(k) = 0
      /\ Mapped(k) =>
           \A p \in 1..Len(POMapsOf(k)) : \A r \in 1..Len(RowsOf(k)) :
             Cardinality(Emitted(k, r, p)) =
               IF Incomplete(POMapsOf(k)[p].object.value) THEN 0 ELSE 1

\* C12, for reference object maps: the same, where the other
\* predicate-object maps are those whose object map carries a reference.
C12_FinestGrainSkipForReferences ==
  pc = "resolved" =>
    \A k \in 1..Len(triplesMaps) :
      /\ WithoutSubject(k) => ContributionCount(k) = 0
      /\ Mapped(k) =>
           \A p \in 1..Len(POMapsOf(k)) : \A r \in 1..Len(RowsOf(k)) :
             Cardinality(Emitted(k, r, p)) =
               IF /\ ~Incomplete(POMapsOf(k)[p].object.value)
                  /\ ObjectTerms(POMapsOf(k)[p].object.value, RML_reference) # <<>>
               THEN 1 ELSE 0

\* a resolved invocation with a triples-map without subject followed by one
\* that contributes, and one with an incomplete predicate-object map
\* followed by one that emits
C12_SkippedThenProcessed ==
  /\ pc = "resolved"
  /\ \/ \E k \in 1..Len(triplesMaps) :
          /\ WithoutSubject(k)
          /\ k < Len(triplesMaps)
          /\ ContributionCount(k + 1) > 0
     \/ \E k \in 1..Len(triplesMaps) :
          /\ Mapped(k)
          /\ Len(POMapsOf(k)) = 2
          /\ Incomplete(POMapsOf(k)[1].object.value)
          /\ Emitted(k, 2, 2) # {}

\* the triples-map at position k is bound to a source whose content the
\* CSV parser rejects
SourceFailsCsvParsing(k) ==
  IF SourceNotFound(logicalSources, triplesMaps[k], inputFiles) THEN FALSE
  ELSE parse(inputFiles[logicalSources[triplesMaps[k]]]).thrown

\* a collaborator fails: the RDF parser on the mapping text, or the CSV
\* parser on the content of a bound source
CollaboratorFailure ==
  IF parseRMLRules(rmlString).thrown THEN TRUE
  ELSE \E k \in 1..Len(extractLogicalSources(rmlString.quads).triplesMaps) :
         LET found == extractLogicalSources(rmlString.quads)
             map   == found.triplesMaps[k]
         IN  IF SourceNotFound(found.logicalSources, map, inputFiles) THEN FALSE
             ELSE parse(inputFiles[found.logicalSources[map]]).thrown

\* C13: doMapping rejects exactly when the mapping text fails to parse or
\* the content of a bound source fails CSV parsing, otherwise it resolves;
\* a rejected invocation returns no triples.
C13_FailsOnlyByCollaborator ==
  /\ pc = "rejected" => CollaboratorFailure /\ outcome.result = <<>>
  /\ pc = "resolved" => ~CollaboratorFailure

\* the template with every placeholder of a field that the row holds as a
\* string replaced, in one scan, by the percent-encoded value
RECURSIVE SinglePass(_, _)
SinglePass(template, r) ==
  IF template = <<>> THEN <<>>
  ELSE IF \E f \in FieldNames :
            OccursAt(template, Placeholder(f), 1) /\ Get(r, f).t = "string"
  THEN LET f == CHOOSE g \in FieldNames :
                  OccursAt(template, Placeholder(g), 1) /\ Get(r, g).t = "string"
       IN  encodeURIComponent(Get(r, f).v)
           \o SinglePass(SubSeq(template, Len(Placeholder(f)) + 1, Len(template)), r)
  ELSE <<Head(template)>> \o SinglePass(Tail(template), r)

Occurrences(s, pat) == {i \in 1..Len(s) : OccursAt(s, pat, i)}

\* every placeholder of the template occurs once and names a field that
\* the row holds as a string
EveryFieldPresent(template, r) ==
  \A f \in FieldNames :
    \/ Occurrences(template, Placeholder(f)) = {}
    \/ /\ Cardinality(Occurrences(template, Placeholder(f))) = 1
       /\ Get(r, f).t = "string"

\* C14: for a row that holds every placeholder field, the subject is the
\* template with each placeholder replaced, in one pass, by the
\* percent-encoded value of the field; the template
\* http://example.com/medication/{id} with id = ATC001 and reference id
\* gives subject http://example.com/medication/ATC001 and object "ATC001".
C14_SinglePassExpansion ==
  /\ (pc = "poMaps" /\ EveryFieldPresent(subjectTemplate, row))
       => subjectURI = SinglePass(subjectTemplate, row)
  /\ (/\ Pushed
      /\ subjectTemplate = T_id
      /\ Get(row, F_id) = StrV(V_ATC001)
      /\ lastTerms.reference = F_id)
       => /\ lastQuad.subject = NamedNode(EX \o V_ATC001)
          /\ lastQuad.object = Literal(V_ATC001)

\* C14, for sources whose first line of data is complete: the same, where
\* every column of the source is among the headers parseCSV returns.
C14_SinglePassWithAllHeaders ==
  (/\ pc = "poMaps"
   /\ EveryFieldPresent(subjectTemplate, row)
   /\ csvData.headers = Columns(inputFiles[sourceFile]))
  => subjectURI = SinglePass(subjectTemplate, row)

\* a value that reads as a placeholder is substituted and not expanded
C14_ValueNotExpanded ==
  /\ pc = "poMaps"
  /\ subjectTemplate = T_pair
  /\ Get(row, F_id) = StrV(V_braces)
  /\ Get(row, F_room) = StrV(V_101)
  /\ subjectURI = EX \o <<"%", "7", "B", "room", "%", "7", "D", "/">> \o V_101

\* C15: once the subject of a row is expanded, no placeholder of a header
\* of the source remains in it, however often the template holds it.
C15_EveryOccurrenceReplaced ==
  pc = "poMaps" =>
    \A i \in 1..Len(csvData.headers) :
      Occurrences(subjectURI, Placeholder(csvData.headers[i])) = {}

\* C15, for templates that hold each placeholder once.
C15_SingleOccurrenceReplaced ==
  pc = "poMaps" =>
    \A i \in 1..Len(csvData.headers) :
      Cardinality(Occurrences(subjectTemplate, Placeholder(csvData.headers[i]))) <= 1
      => Occurrences(subjectURI, Placeholder(csvData.headers[i])) = {}

\* the data lines of the bound source of the triples-map under the loop
DataLinesOf(csvContent) ==
  SubSeq(KeptLines(csvContent), 2, Len(KeptLines(csvContent)))

\* C16: the headers parseCSV returns are the field names of the first line
\* of the source, in order, whatever the data lines; each data line gives a
\* row, whose value for column i is field i of the line, a missing field
\* reading as empty once substituted or referenced.
C16_HeadersFromFirstLine ==
  pc \in {"rows", "poMaps"} =>
    LET content == inputFiles[sourceFile]
        columns == Columns(content)
        lines   == DataLinesOf(content)
    IN  /\ csvData.headers = columns
        /\ Len(csvData.rows) = Len(lines)
        /\ \A r \in 1..Len(lines) : \A i \in 1..Len(columns) :
             (\A j \in 1..Len(columns) : j # i => columns[j] # columns[i])
             => OrEmpty(Get(csvData.rows[r], columns[i]))
                  = StrV(IF i <= Len(lines[r]) THEN Trim(lines[r][i]) ELSE <<>>)

\* C16, for the rows alone and column names without dots: a line with
\* fewer or more fields than columns is accepted, missing fields read as
\* empty and extra fields are ignored.
C16_ColumnCountTolerated ==
  pc \in {"rows", "poMaps"} =>
    LET content == inputFiles[sourceFile]
        columns == Columns(content)
        lines   == DataLinesOf(content)
    IN  /\ Len(csvData.rows) = Len(lines)
        /\ (\A i \in 1..Len(columns) : ~IncludesDot(columns[i])) =>
             \A r \in 1..Len(lines) : \A i \in 1..Len(columns) :
               (\A j \in 1..Len(columns) : j # i => columns[j] # columns[i])
               => OrEmpty(Get(csvData.rows[r], columns[i]))
                    = StrV(IF i <= Len(lines[r]) THEN Trim(lines[r][i]) ELSE <<>>)

\* C17: for a dotted reference whose first segment is a nested object of
\* the row and whose walk stops at a missing or empty later segment, the
\* emitted object is the value of the row under the whole reference as a
\* flat key, and the empty string when the row has no such key; it is not
\* the nested object.
C17_PartialDottedMatch ==
  (/\ Pushed
   /\ IncludesDot(lastTerms.reference)
   /\ Get(row, Split(lastTerms.reference)[1]).t = "object"
   /\ WalkFails(row, Split(lastTerms.reference)))
  => /\ lastQuad.object =
          IF Get(row, lastTerms.reference).t = "string"
          THEN Literal(Get(row, lastTerms.reference).v)
          ELSE Literal(<<>>)
     /\ lastQuad.object # literal(Get(row, Split(lastTerms.reference)[1]))

\* the walk of room.name.first enters the nested object room and stops at
\* the empty room.name; the flat value of room.name.first is emitted
C17_Witness ==
  /\ Pushed
  /\ lastTerms.reference = F_room_name_first
  /\ Get(row, F_room).t = "object"
  /\ Get(Get(row, F_room), <<"name">>) = StrV(V_empty)
  /\ Get(row, F_room_name_first) = StrV(V_101)
  /\ lastQuad.object = Literal(V_101)

\* the walk stops inside the nested object and the row has no flat key
C17_WitnessAbsentKey ==
  /\ Pushed
  /\ lastTerms.reference = F_room_name_first
  /\ Get(row, F_room).t = "object"
  /\ Get(row, F_room_name_first) = Undefined
  /\ lastQuad.object = Literal(<<>>)

\* the position in the descriptor of the first statement with the subject
\* and the predicate, 0 without one
FirstStatement(quads, subject, predicate) ==
  LET at == {i \in 1..Len(quads) :
               /\ quads[i].subject.value = subject
               /\ quads[i].predicate.value = predicate}
  IN  IF at = {} THEN 0 ELSE CHOOSE i \in at : \A j \in at : i <= j

\* the object of that statement
FirstObject(quads, subject, predicate) ==
  quads[FirstStatement(quads, subject, predicate)].object.value

Several(quads, subject, predicate) ==
  Cardinality({i \in 1..Len(quads) :
                 /\ quads[i].subject.value = subject
                 /\ quads[i].predicate.value = predicate}) > 1

\* the subject template is the first template of the first subject map
FirstTemplateUsed ==
  pc \in {"rows", "poMaps"} =>
    subjectTemplate =
      FirstObject(store, FirstObject(store, triplesMap, RR_subjectMap),
                  RR_template)

\* the predicate and the reference of a pushed quad are the first constant
\* of the first predicate map and the first reference of the first object
\* map
FirstTermsUsed ==
  Pushed =>
    LET poMap == poMapQuads[poIdx - 1].object.value
    IN  /\ lastTerms.predicate =
             FirstObject(store, FirstObject(store, poMap, RR_predicateMap),
                         RR_constant)
        /\ lastTerms.reference =
             FirstObject(store, FirstObject(store, poMap, RR_objectMap),
                         RML_reference)
        /\ lastQuad.predicate = NamedNode(lastTerms.predicate)

\* C18: the source key bound to a triples-map is the first source literal
\* of its first logical source, in descriptor order; the subject template,
\* the predicate and the reference used are the first ones too.
C18_FirstMatchInDescriptorOrder ==
  /\ \A k \in 1..Len(triplesMaps) :
       LET ls == FirstStatement(store, triplesMaps[k], RML_logicalSource)
       IN  IF ls = 0 THEN TRUE
           ELSE IF FirstStatement(store, store[ls].object.value, RML_source) = 0
           THEN TRUE
           ELSE /\ triplesMaps[k] \in DOMAIN logicalSources
                /\ logicalSources[triplesMaps[k]] =
                     FirstObject(store, store[ls].object.value, RML_source)
  /\ FirstTemplateUsed
  /\ FirstTermsUsed

\* C18, for the lookups of the loop body: the first subject map, template,
\* predicate constant and reference are the ones used.
C18_FirstMatchInLoopBody == FirstTemplateUsed /\ FirstTermsUsed

\* a quad pushed for a triples-map with two subject maps, two templates,
\* two predicate constants and two references
C18_SeveralTerms ==
  /\ Pushed
  /\ poIdx = 2
  /\ Several(store, triplesMap, RR_subjectMap)
  /\ Several(store, FirstObject(store, triplesMap, RR_subjectMap), RR_template)
  /\ Several(store, Node2("pm", 1, 1), RR_constant)
  /\ Several(store, Node2("om", 1, 1), RML_reference)

\* the elements of seq at the positions in at, in order
Pick(seq, at) == [j \in 1..Len(Ascending(at)) |-> seq[Ascending(at)[j]]]

\* the lines that triples-map k contributed to the result of invocation h
ContributionOf(h, k) ==
  Pick(h.outcome.result, {n \in 1..Len(h.origin) : h.origin[n][1] = k})

\* the contributions of invocation h follow each other in the order of the
\* triples-maps
InTriplesMapOrder(h) ==
  /\ Len(h.outcome.result) = Len(h.origin)
  /\ \A m, n \in 1..Len(h.origin) : m < n => h.origin[m][1] <= h.origin[n][1]

\* no element occurs twice in seq
Distinct(seq) == \A a, b \in 1..Len(seq) : a # b => seq[a] # seq[b]

C20_PlainLiteralObjects ==
  \A n \in 1..Len(resultQuads) :
    /\ resultQuads[n].subject.termType = "NamedNode"
    /\ resultQuads[n].predicate.termType = "NamedNode"
    /\ resultQuads[n].object.termType = "Literal"
    /\ resultQuads[n].object.language = <<>>
    /\ resultQuads[n].object.datatype = XSD_string

\* C20, for references that do not walk into a string value: the same,
\* where no reference ends on the length or on an index of a string.
C20_PlainLiteralsForStringValues ==
  Pushed =>
    \/ ResolveReference(row, lastTerms.reference).t = "number"
    \/ /\ lastQuad.subject.termType = "NamedNode"
       /\ lastQuad.predicate.termType = "NamedNode"
       /\ lastQuad.object.termType = "Literal"
       /\ lastQuad.object.language = <<>>
       /\ lastQuad.object.datatype = XSD_string

\* an invocation starts from its arguments alone, and settles as every
\* earlier invocation with the same arguments did
FreshInvocation ==
  /\ (pc = "triplesMaps" /\ tmIdx = 1) =>
       /\ resultQuads = <<>>
       /\ store = parseRMLRules(rmlString).quads
       /\ logicalSources = extractLogicalSources(store).logicalSources
  /\ Settled =>
       \A i \in 1..Len(history) :
         history[i].rmlString = rmlString =>
           /\ history[i].outcome = outcome
           /\ history[i].origin = origin

\* C21: no state survives an invocation: whether it resolves or rejects,
\* Object.prototype, which every object of a later invocation inherits
\* from, holds the properties it held at start, and a later invocation
\* starts from its arguments alone and settles as an earlier one with the
\* same arguments.
C21_NoStateSurvives ==
  /\ objectPrototype = NoProperties
  /\ FreshInvocation

\* C21, for the arguments: no step of an invocation changes the mapping
\* text or the source table.
C21_InputsReadOnly == [][~Settled => UNCHANGED args]_vars

\* C21, for sources that reach Object.prototype by no column name.
C21_FreshInvocation == FreshInvocation

\* a rejected invocation has left a property on Object.prototype
C21_RejectedWithProperty ==
  /\ pc = "rejected"
  /\ F_zip \in DOMAIN objectPrototype
  /\ objectPrototype[F_zip] = StrV(V_101)

\* C22: however often the type statement of a triples-map occurs in the
\* descriptor, the triples-map is once in triplesMaps, and no row and
\* predicate-object map of it emits a second triple.
C22_ProcessedOnce ==
  /\ Distinct(triplesMaps)
  /\ \A m, n \in 1..Len(origin) :
       (/\ m # n
        /\ triplesMaps[origin[m][1]] = triplesMaps[origin[n][1]]
        /\ origin[m][2] = origin[n][2])
       => origin[m][3] # origin[n][3]

\* C22, for descriptors that state the type of each triples-map once.
C22_ProcessedOnceWithoutRepetition ==
  (\A i, j \in 1..Len(store) :
     (/\ store[i].predicate.value = RDF_type
      /\ store[i].object.value = RR_TriplesMap
      /\ store[i] = store[j]) => i = j)
  => C22_ProcessedOnce

\* a resolved invocation whose result holds the triples of a triples-map
\* twice, once for each occurrence of its type statement
C22_EmittedTwice ==
  /\ pc = "resolved"
  /\ Len(resultQuads) = 8
  /\ \A n \in 1..4 :
       /\ resultQuads[n] = resultQuads[n + 4]
       /\ origin[n][1] = 1
       /\ origin[n + 4][1] = 2

====
